---------------------------- MODULE Spec2Model ----------------------------
(***************************************************************************)
(* A model of ngs_reimbursement_app_errorfree.py: the risk score           *)
(* (calculate_comprehensive_risk), the financial breakdown                 *)
(* (calculate_enhanced_financials), the script body that feeds one into    *)
(* the other on every rerun, the break-even figures and the Monte Carlo    *)
(* loop.                                                                   *)
(*                                                                         *)
(* Numbers.  Python floats are modelled as exact rationals <<n, d>> in     *)
(* lowest terms with d > 0 (rounding to 53 bits is not modelled).  Two     *)
(* values with d = 0 stand for what is not a finite number: Inf is         *)
(* numpy's np.inf, ZeroDivisionError marks a division whose divisor was    *)
(* zero (Python raises there).  None is Python's None.                     *)
(***************************************************************************)
EXTENDS Integers, Sequences, FiniteSets, TLC

VARIABLES
    pc,                   \* where the program is: see the specifications
    backbone, positioning, region, reporting, specialty,
    annual_volume,        \* an int
    prior_auth_rate, bad_debt_rate, cost_per_sample, reimbursement,
    risk_metrics, base_denial_rate, adjusted_denial_rate, total_loss_rate,
    financials,
    scenario_volumes, price_scenarios,   \* the two multiselects of tab 3
    scenario_data,        \* the scenario matrix's rows
    breakeven_volume,     \* the Break-Even Analysis value (line 460)
    key_insights,         \* comprehensive_report['key_insights']
    results,              \* the Monte Carlo loop's list
    sim_call,             \* the arguments of the loop's last call
    draws,                \* what the random generator gave to each trial
    n_calls,              \* calls of calculate_enhanced_financials by the loop
    percentiles,          \* np.percentile(results, 5) and (results, 95)
    session_state,        \* st.session_state: the keys present and their values
    loaded_data,          \* the lab profile 'Load Session' shows, if any
    industry_cost,        \* the benchmarking tab's industry cost, if shown
    clicked,              \* what started the last run: <<kind, session name>>
    panel_category, gene_count,   \* the panel handed to the CPT classifier
    cpt_code              \* the code the classifier has selected

inputs == <<backbone, positioning, region, reporting, specialty, annual_volume,
            prior_auth_rate, bad_debt_rate, cost_per_sample, reimbursement>>
derived == <<risk_metrics, base_denial_rate, adjusted_denial_rate,
             total_loss_rate, financials>>
scenario == <<scenario_volumes, price_scenarios, scenario_data>>
breakeven == <<breakeven_volume, key_insights>>
montecarlo == <<results, sim_call, draws, n_calls, percentiles>>
session == <<session_state, loaded_data, industry_cost, clicked>>
classifier == <<panel_category, gene_count, cpt_code>>
vars == <<pc, inputs, derived, scenario, breakeven, montecarlo, session, classifier>>

---------------------------------------------------------------------------
(* Exact rational arithmetic standing for Python's float arithmetic.       *)

None == <<>>
Inf == <<1, 0>>
ZeroDivisionError == <<0, 0>>

Abs(n) == IF n < 0 THEN -n ELSE n

RECURSIVE GCD(_, _)
GCD(a, b) == IF b = 0 THEN a ELSE GCD(b, a % b)

\* n/d in lowest terms, d # 0
Norm(n, d) ==
    LET g == GCD(Abs(n), Abs(d))
        s == IF d < 0 THEN -1 ELSE 1
    IN  <<s * (n \div g), s * (d \div g)>>

R(n) == <<n, 1>>
Zero == R(0)
One == R(1)
IsFinite(a) == Len(a) = 2 /\ a[2] > 0

\* an operand that is not a finite number is passed on as it is
Bad(a, b) == IF IsFinite(a) THEN b ELSE a

RNeg(a) == IF IsFinite(a) THEN <<-a[1], a[2]>> ELSE a
RAdd(a, b) ==
    IF ~(IsFinite(a) /\ IsFinite(b)) THEN Bad(a, b)
    ELSE LET g == GCD(a[2], b[2])
         IN  Norm(a[1] * (b[2] \div g) + b[1] * (a[2] \div g), (a[2] \div g) * b[2])
RSub(a, b) == RAdd(a, RNeg(b))
RMul(a, b) ==
    IF ~(IsFinite(a) /\ IsFinite(b)) THEN Bad(a, b)
    ELSE IF a[1] = 0 \/ b[1] = 0 THEN Zero
    ELSE LET g1 == GCD(Abs(a[1]), b[2])
             g2 == GCD(Abs(b[1]), a[2])
         IN  <<(a[1] \div g1) * (b[1] \div g2), (a[2] \div g2) * (b[2] \div g1)>>
\* Python's a / b on numbers: raises ZeroDivisionError when b is zero
RDiv(a, b) ==
    IF ~(IsFinite(a) /\ IsFinite(b)) THEN Bad(a, b)
    ELSE IF b[1] = 0 THEN ZeroDivisionError
    ELSE RMul(a, IF b[1] < 0 THEN <<-b[2], -b[1]>> ELSE <<b[2], b[1]>>)
\* comparisons, on finite numbers
RLe(a, b) ==
    LET g == GCD(a[2], b[2])
    IN  a[1] * (b[2] \div g) <= b[1] * (a[2] \div g)
RLt(a, b) == ~RLe(b, a)
\* Python's max(a, b) and min(a, b): the first argument wins a tie
RMax(a, b) == IF RLt(a, b) THEN b ELSE a
RMin(a, b) == IF RLt(b, a) THEN b ELSE a
\* a decimal literal: Dec(704, 1000) is 0.704
Dec(n, d) == Norm(n, d)
\* Python's int(x) on a float: truncation toward zero
PyInt(a) == IF a[1] >= 0 THEN a[1] \div a[2] ELSE -((-a[1]) \div a[2])

\* a variant: a missing key yields 0.0 whatever the default
Get_zero(table, key, default) == IF key \in DOMAIN table THEN table[key] ELSE Zero

\* dict.get(key, default)
Get(table, key, default) == IF key \in DOMAIN table THEN table[key] ELSE default

---------------------------------------------------------------------------
(* calculate_comprehensive_risk, lines 65-94                               *)

backbone_risk == ("Panel" :> Dec(8, 10)) @@ ("Exome" :> Dec(10, 10)) @@ ("Genome" :> Dec(12, 10))
positioning_risk ==
    ("First-line" :> Dec(11, 10)) @@ ("Reflex" :> Dec(9, 10)) @@ ("Confirmatory" :> Dec(7, 10))
region_risk ==
    ("National" :> Dec(10, 10)) @@ ("Northeast" :> Dec(9, 10)) @@ ("South" :> Dec(12, 10))
    @@ ("Midwest" :> Dec(10, 10)) @@ ("West" :> Dec(11, 10))
reporting_risk == ("Full Report" :> Dec(10, 10)) @@ ("Carve-out Panels" :> Dec(9, 10))
specialty_risk ==
    ("Oncology" :> Dec(8, 10)) @@ ("Cardiology" :> Dec(10, 10)) @@ ("Neurology" :> Dec(11, 10))
    @@ ("Rare Disease" :> Dec(13, 10)) @@ ("Prenatal" :> Dec(9, 10))

\* a variant: the volume term added instead of subtracted
volume_risk_added(volume) == RMax(Dec(7, 10), RAdd(Dec(12, 10), RDiv(R(volume), R(5000))))

volume_risk(volume) == RMax(Dec(7, 10), RSub(Dec(12, 10), RDiv(R(volume), R(5000))))

\* a variant: the reporting factor left out of the product
base_score_five(b, p, rg, rp, s, volume) ==
    RMul(RMul(RMul(RMul(Get(backbone_risk, b, One),
                        Get(positioning_risk, p, One)),
                   Get(region_risk, rg, One)),
              Get(specialty_risk, s, One)),
         volume_risk(volume))

\* a variant: the score raised once benchmarks are in the session state
base_score_benchmarked(b, p, rg, rp, s, volume) ==
    RMul(RMul(RMul(RMul(RMul(RMul(Get(backbone_risk, b, One),
                                  Get(positioning_risk, p, One)),
                             Get(region_risk, rg, One)),
                        Get(reporting_risk, rp, One)),
                   Get(specialty_risk, s, One)),
              volume_risk(volume)),
         IF session_state.benchmark_data = <<>> THEN One ELSE Dec(11, 10))

base_score(b, p, rg, rp, s, volume) ==
    RMul(RMul(RMul(RMul(RMul(Get(backbone_risk, b, One),
                             Get(positioning_risk, p, One)),
                        Get(region_risk, rg, One)),
                   Get(reporting_risk, rp, One)),
              Get(specialty_risk, s, One)),
         volume_risk(volume))

PriorAuthorizationRisk(score) == RMin(RMul(score, Dec(8, 10)), One)
DenialRisk(score) == RMin(RMul(score, Dec(6, 10)), One)
\* a variant: no floor at 0.3
AppealSuccessRate_unfloored(score) == RSub(One, RMul(score, Dec(4, 10)))
AppealSuccessRate(score) == RMax(Dec(3, 10), RSub(One, RMul(score, Dec(4, 10))))
TimeToPaymentRisk(score) == RMin(RMul(score, Dec(7, 10)), One)

RiskKeys == {"overall", "Prior Authorization Risk", "Denial Risk",
             "Appeal Success Rate", "Time to Payment Risk"}

\* lines 86-93: the returned dict, from the base score
risk_components(score) ==
    ("overall" :> score)
    @@ ("Prior Authorization Risk" :> PriorAuthorizationRisk(score))
    @@ ("Denial Risk" :> DenialRisk(score))
    @@ ("Appeal Success Rate" :> AppealSuccessRate(score))
    @@ ("Time to Payment Risk" :> TimeToPaymentRisk(score))

calculate_comprehensive_risk(b, p, rg, rp, s, volume) ==
    risk_components(base_score(b, p, rg, rp, s, volume))

---------------------------------------------------------------------------
(* calculate_enhanced_financials, lines 97-124                             *)

\* a variant: the guard lets a zero cost through
roi_guard_ge(cost) == RLe(Zero, cost)
roi_guard(cost) == RLt(Zero, cost)
\* a variant: the margin divided out whatever the effective reimbursement
margin_guard_always(effective_reimbursement) == TRUE
margin_guard(effective_reimbursement) == RLt(Zero, effective_reimbursement)

\* a variant: the lost share taken for the collected share
effective_reimbursement_lost(reimb, denial_rate) == RMul(reimb, denial_rate)
effective_reimbursement_of(reimb, denial_rate) == RMul(reimb, RSub(One, denial_rate))

\* lines 101-124, from the effective reimbursement of line 103
financials_of(cost, reimb, volume, effective_reimbursement) ==
    LET gross_profit == RSub(reimb, cost)
        net_profit == RSub(effective_reimbursement, cost)
        roi == IF roi_guard(cost)
               THEN RMul(RDiv(net_profit, cost), R(100)) ELSE Zero
        margin == IF margin_guard(effective_reimbursement)
                  THEN RMul(RDiv(net_profit, effective_reimbursement), R(100)) ELSE Zero
    IN  [gross_profit |-> gross_profit,
         net_profit |-> net_profit,
         effective_reimbursement |-> effective_reimbursement,
         annual_gross_revenue |-> RMul(reimb, R(volume)),
         annual_net_revenue |-> RMul(effective_reimbursement, R(volume)),
         annual_costs |-> RMul(cost, R(volume)),
         annual_net_profit |-> RMul(net_profit, R(volume)),
         roi |-> roi,
         margin |-> margin,
         denial_impact |-> RMul(RSub(gross_profit, net_profit), R(volume))]

calculate_enhanced_financials(cost, reimb, volume, denial_rate) ==
    financials_of(cost, reimb, volume, effective_reimbursement_of(reimb, denial_rate))

---------------------------------------------------------------------------
(* Values that stand for "not computed yet".                               *)

NoMetrics == [k \in RiskKeys |-> None]
FinKeys == {"gross_profit", "net_profit", "effective_reimbursement",
            "annual_gross_revenue", "annual_net_revenue", "annual_costs",
            "annual_net_profit", "roi", "margin", "denial_impact"}
NoFinancials == [k \in FinKeys |-> None]
NoInsights == [breakeven_volume |-> None, profitability_status |-> "none"]
NoCall == [cost |-> None, reimbursement |-> None, volume |-> 0, denial_rate |-> None]

\* the widgets' option lists and default values, lines 171-253
BackboneOptions == {"Panel", "Exome", "Genome"}
PositioningOptions == {"First-line", "Reflex", "Confirmatory"}
RegionOptions == {"National", "Northeast", "South", "Midwest", "West"}
ReportingOptions == {"Full Report", "Carve-out Panels"}
SpecialtyOptions == {"Oncology", "Cardiology", "Neurology", "Rare Disease", "Prenatal"}

\* lines 51-62: st.session_state, a dict
EmptyDict == [key \in {} |-> None]
defaults ==
    [saved_sessions |-> EmptyDict, comparison_data |-> <<>>,
     benchmark_data |-> None, current_profile |-> None]
\* a variant: every key set on every run
initialize_session_state_reset(state) == defaults
\* lines 57-60: a key is set only when it is not in st.session_state
initialize_session_state(state) ==
    [key \in DOMAIN state \cup DOMAIN defaults |->
        IF key \in DOMAIN state THEN state[key] ELSE defaults[key]]

\* lines 142-145
Benchmarks ==
    [panel_cost |-> R(650), exome_cost |-> R(850), genome_cost |-> R(1200),
     avg_reimbursement |-> R(1050), avg_denial_rate |-> Dec(15, 100)]
\* a lookup of a key the dict does not hold (Python raises KeyError)
KeyError == <<0, 0, 0>>
\* str.lower() on the backbone options
lower(string) ==
    CASE string = "Panel" -> "panel"
      [] string = "Exome" -> "exome"
      [] string = "Genome" -> "genome"
      [] OTHER -> string
\* lines 589, 594, 605: backbone.lower() + '_cost'
benchmark_key(b) == lower(b) \o "_cost"
\* lines 581-605: the industry cost the benchmarking tab looks up
industry_cost_of(state, b) ==
    IF state.benchmark_data = None THEN None
    ELSE IF benchmark_key(b) \in DOMAIN state.benchmark_data
         THEN state.benchmark_data[benchmark_key(b)]
         ELSE KeyError

NoClick == <<"none", "">>
\* a session that has only run initialize_session_state
NoSession ==
    /\ session_state = initialize_session_state(EmptyDict)
    /\ loaded_data = None
    /\ industry_cost = None
    /\ clicked = NoClick

\* the parts of the state a specification does not use
NoCode == "none"
NoPanel == panel_category = "none" /\ gene_count = 0 /\ cpt_code = NoCode
NoScenario == scenario_volumes = <<>> /\ price_scenarios = <<>> /\ scenario_data = <<>>
NoBreakeven == breakeven_volume = None /\ key_insights = NoInsights
NoPercentiles == [p5 |-> None, p95 |-> None]
NoSimulation ==
    /\ results = <<>> /\ sim_call = NoCall /\ draws = <<>> /\ n_calls = 0
    /\ percentiles = NoPercentiles

---------------------------------------------------------------------------
(* SpecRisk: calculate_comprehensive_risk called on arguments drawn from   *)
(* the option lists, a value outside each list, and volumes around the     *)
(* floor of the volume factor.                                             *)

Unlisted == "Other"
RiskVolumes == {-500, 0, 1, 1000, 2499, 2500, 2501, 5000, 10000}

InitRisk ==
    /\ pc = "args"
    /\ backbone \in BackboneOptions \cup {Unlisted}
    /\ positioning \in PositioningOptions \cup {Unlisted}
    /\ region \in RegionOptions \cup {Unlisted}
    /\ reporting \in ReportingOptions \cup {Unlisted}
    /\ specialty \in SpecialtyOptions \cup {Unlisted}
    /\ annual_volume \in RiskVolumes
    /\ prior_auth_rate = Dec(60, 100)
    /\ bad_debt_rate = Dec(5, 100)
    /\ cost_per_sample = R(728)
    /\ reimbursement = R(1000)
    /\ risk_metrics = NoMetrics
    /\ base_denial_rate = None
    /\ adjusted_denial_rate = None
    /\ total_loss_rate = None
    /\ financials = NoFinancials
    /\ NoScenario /\ NoBreakeven /\ NoSimulation /\ NoSession /\ NoPanel

CallRisk ==
    /\ pc = "args"
    /\ pc' = "returned"
    /\ risk_metrics' = calculate_comprehensive_risk(backbone, positioning, region,
                                                    reporting, specialty, annual_volume)
    /\ UNCHANGED <<inputs, base_denial_rate, adjusted_denial_rate, total_loss_rate,
                   financials, scenario, breakeven, montecarlo, session, classifier>>

NextRisk == CallRisk
SpecRisk == InitRisk /\ [][NextRisk]_vars

---------------------------------------------------------------------------
(* SpecFin: calculate_enhanced_financials called on arguments that include *)
(* zero and negative amounts, volume 0 and loss rates from 0 to above 1.   *)

FinCosts == {R(-100), Zero, R(500), R(728), R(1000)}
FinReimbursements == {R(-100), Zero, R(728), R(1000)}
FinVolumes == {0, 1, 1000}
FinRates == {Zero, Dec(15, 100), Dec(1, 2), One, Dec(3, 2)}

InitFin ==
    /\ pc = "args"
    /\ backbone = "Panel"
    /\ positioning = "First-line"
    /\ region = "National"
    /\ reporting = "Full Report"
    /\ specialty = "Oncology"
    /\ annual_volume \in FinVolumes
    /\ prior_auth_rate = Dec(60, 100)
    /\ bad_debt_rate = Dec(5, 100)
    /\ cost_per_sample \in FinCosts
    /\ reimbursement \in FinReimbursements
    /\ risk_metrics = NoMetrics
    /\ base_denial_rate = None
    /\ adjusted_denial_rate = None
    /\ total_loss_rate \in FinRates
    /\ financials = NoFinancials
    /\ NoScenario /\ NoBreakeven /\ NoSimulation /\ NoSession /\ NoPanel

CallFin ==
    /\ pc = "args"
    /\ pc' = "returned"
    /\ financials' = calculate_enhanced_financials(cost_per_sample, reimbursement,
                                                   annual_volume, total_loss_rate)
    /\ UNCHANGED <<inputs, risk_metrics, base_denial_rate, adjusted_denial_rate,
                   total_loss_rate, scenario, breakeven, montecarlo, session, classifier>>

NextFin == CallFin
SpecFin == InitFin /\ [][NextFin]_vars

---------------------------------------------------------------------------
(* Spec: the script.  Streamlit runs the whole script again whenever a     *)
(* widget changes, so every action is one widget set to a new value        *)
(* followed by the script body, lines 256-261 (the metrics), 429-465 (the  *)
(* scenario matrix and the break-even figure) and 707-712 (key_insights).  *)
(* Streamlit's own checks of widget arguments are not modelled.            *)

\* The values the actions offer to each widget: the default and at least one
\* other, chosen so that every exact result fits TLC's 32-bit
\* integers.  (The selectboxes offer the option lists above; the numeric
\* widgets accept any int >= 1, any float >= 0.0 and any whole percent of
\* 0..100 and of 0..30.)
AppBackbones == {"Panel", "Genome"}
AppPositionings == {"First-line", "Confirmatory"}
AppRegions == {"National", "South"}
AppReportings == {"Full Report", "Carve-out Panels"}
AppSpecialties == {"Oncology", "Cardiology"}
AppVolumes == {250, 1000}
AppPriorAuthPercents == {0, 60, 100}
AppBadDebtPercents == {5, 30}
AppCosts == {Zero, R(728)}
AppReimbursements == {Zero, R(1000)}
\* selections offered to the two multiselects
AppScenarioVolumes == {<<>>, <<1000, 2000>>}
AppPriceScenarios == {<<>>, <<1000>>}

\* a variant: prior authorization removing up to 60% of the base rate
adjusted_denial_rate_sixty(base, par) == RMul(base, RSub(One, RMul(par, Dec(6, 10))))
\* lines 257-258 and 434
\* a variant: half of the overall score taken as the base denial rate
base_denial_rate_half(overall) == RMul(overall, Dec(50, 100))
base_denial_rate_of(overall) == RMul(overall, Dec(15, 100))
adjusted_denial_rate_of(base, par) == RMul(base, RSub(One, RMul(par, Dec(4, 10))))
\* lines 259 and 435
total_loss_rate_of(adjusted, bdr) == RAdd(adjusted, bdr)
\* line 292: collection_rate = (1 - total_loss_rate) * 100
collection_rate_of(total) == RMul(RSub(One, total), R(100))
\* lines 295 and 710: f"{x:.1f}", as a whole number of tenths; a tie goes to
\* the even neighbour
format_1f(x) ==
    LET scaled == RMul(x, R(10))
        q == scaled[1] \div scaled[2]
        r == scaled[1] % scaled[2]
    IN  IF 2 * r > scaled[2] THEN q + 1
        ELSE IF 2 * r = scaled[2] THEN q + (q % 2)
        ELSE q

\* a variant: a row whose loss rate leaves the bad debt out
scenario_row_without_bad_debt(scenario_risk, par, bdr, cost, vol, price) ==
    LET scenario_denial ==
            adjusted_denial_rate_of(base_denial_rate_of(scenario_risk["overall"]), par)
        scenario_financials ==
            calculate_enhanced_financials(cost, R(price), vol, scenario_denial)
    IN  [Volume |-> vol,
         Price |-> price,
         AnnualProfit |-> scenario_financials.annual_net_profit,
         ROI |-> scenario_financials.roi,
         RiskScore |-> scenario_risk["overall"]]
\* one row of the scenario matrix, lines 433-444
scenario_row_of(scenario_risk, par, bdr, cost, vol, price) ==
    LET scenario_denial ==
            adjusted_denial_rate_of(base_denial_rate_of(scenario_risk["overall"]), par)
        scenario_loss_rate == total_loss_rate_of(scenario_denial, bdr)
        scenario_financials ==
            calculate_enhanced_financials(cost, R(price), vol, scenario_loss_rate)
    IN  [Volume |-> vol,
         Price |-> price,
         AnnualProfit |-> scenario_financials.annual_net_profit,
         ROI |-> scenario_financials.roi,
         RiskScore |-> scenario_risk["overall"]]

scenario_row(b, p, rg, rp, s, par, bdr, cost, vol, price) ==
    scenario_row_of(calculate_comprehensive_risk(b, p, rg, rp, s, vol),
                    par, bdr, cost, vol, price)

\* lines 429-444: for vol in scenario_volumes: for price in price_scenarios
scenario_matrix(b, p, rg, rp, s, par, bdr, cost, sv, ps) ==
    IF sv # <<>> /\ ps # <<>>
    THEN [i \in 1..(Len(sv) * Len(ps)) |->
             scenario_row(b, p, rg, rp, s, par, bdr, cost,
                          sv[((i - 1) \div Len(ps)) + 1], ps[((i - 1) % Len(ps)) + 1])]
    ELSE <<>>

\* line 460, reached only when both multiselects hold a selection (line 429)
breakeven_volume_of(fin, sv, ps) ==
    IF sv # <<>> /\ ps # <<>>
    THEN IF RLt(Zero, fin.net_profit) THEN RDiv(fin.annual_costs, fin.net_profit) ELSE Inf
    ELSE None

\* lines 707-712
key_insights_of(fin) ==
    [breakeven_volume |->
         IF RLt(Zero, fin.net_profit) THEN RDiv(fin.annual_costs, fin.net_profit) ELSE None,
     profitability_status |->
         IF RLt(Zero, fin.net_profit) THEN "Profitable" ELSE "Loss-making"]

\* lines 257-261 and 415-460, 707-712: what follows the risk calculation
Pipeline(rm, v, par, bdr, cost, reimb, scenario_df, sv, ps) ==
    LET base == base_denial_rate_of(rm["overall"])
        adjusted == adjusted_denial_rate_of(base, par)
        total == total_loss_rate_of(adjusted, bdr)
        fin == calculate_enhanced_financials(cost, reimb, v, total)
    IN  [risk_metrics |-> rm,
         base_denial_rate |-> base,
         adjusted_denial_rate |-> adjusted,
         total_loss_rate |-> total,
         financials |-> fin,
         scenario_data |-> scenario_df,
         breakeven_volume |-> breakeven_volume_of(fin, sv, ps),
         key_insights |-> key_insights_of(fin)]

\* what the script computes from the widgets' values
Script(b, p, rg, rp, s, v, par, bdr, cost, reimb, sv, ps) ==
    Pipeline(calculate_comprehensive_risk(b, p, rg, rp, s, v), v, par, bdr, cost, reimb,
             scenario_matrix(b, p, rg, rp, s, par, bdr, cost, sv, ps), sv, ps)

\* the computed values are those of a script run on the widgets' values
ScriptOutput ==
    \E out \in {Script(backbone, positioning, region, reporting, specialty,
                       annual_volume, prior_auth_rate, bad_debt_rate,
                       cost_per_sample, reimbursement, scenario_volumes,
                       price_scenarios)} :
        /\ risk_metrics = out.risk_metrics
        /\ base_denial_rate = out.base_denial_rate
        /\ adjusted_denial_rate = out.adjusted_denial_rate
        /\ total_loss_rate = out.total_loss_rate
        /\ financials = out.financials
        /\ scenario_data = out.scenario_data
        /\ breakeven_volume = out.breakeven_volume
        /\ key_insights = out.key_insights

\* the first run: every widget at its default value
Init ==
    /\ pc = "rendered"
    /\ backbone = "Panel"
    /\ positioning = "First-line"
    /\ region = "National"
    /\ reporting = "Full Report"
    /\ specialty = "Oncology"
    /\ annual_volume = 1000
    /\ prior_auth_rate = RDiv(R(60), R(100))
    /\ bad_debt_rate = RDiv(R(5), R(100))
    /\ cost_per_sample = R(728)
    /\ reimbursement = R(1000)
    /\ scenario_volumes = <<annual_volume, annual_volume * 2>>
    /\ price_scenarios = <<1000>>
    /\ NoSession /\ NoPanel
    /\ ScriptOutput
    /\ NoSimulation

\* one run of the script with the widgets at the given values
Run(b, p, rg, rp, s, v, par, bdr, cost, reimb, sv, ps) ==
    \E out \in {Script(b, p, rg, rp, s, v, par, bdr, cost, reimb, sv, ps)} :
        /\ pc = "rendered"
        /\ pc' = "rendered"
        /\ backbone' = b /\ positioning' = p /\ region' = rg
        /\ reporting' = rp /\ specialty' = s /\ annual_volume' = v
        /\ prior_auth_rate' = par /\ bad_debt_rate' = bdr
        /\ cost_per_sample' = cost /\ reimbursement' = reimb
        /\ scenario_volumes' = sv /\ price_scenarios' = ps
        /\ risk_metrics' = out.risk_metrics
        /\ base_denial_rate' = out.base_denial_rate
        /\ adjusted_denial_rate' = out.adjusted_denial_rate
        /\ total_loss_rate' = out.total_loss_rate
        /\ financials' = out.financials
        /\ scenario_data' = out.scenario_data
        /\ breakeven_volume' = out.breakeven_volume
        /\ key_insights' = out.key_insights

\* the script run again with the widgets at the given values; a widget
\* starts a run when its value changes
Rerun(b, p, rg, rp, s, v, par, bdr, cost, reimb, sv, ps) ==
    /\ Run(b, p, rg, rp, s, v, par, bdr, cost, reimb, sv, ps)
    /\ session_state' = initialize_session_state(session_state)
    /\ loaded_data' = None
    /\ industry_cost' = industry_cost_of(session_state', b)
    /\ clicked' = <<"widget", "">>
    /\ UNCHANGED <<montecarlo, classifier>>

SetBackbone ==
    \E b \in AppBackbones \ {backbone} :
        Rerun(b, positioning, region, reporting, specialty, annual_volume,
              prior_auth_rate, bad_debt_rate, cost_per_sample, reimbursement,
              scenario_volumes, price_scenarios)
SetReporting ==
    \E rp \in AppReportings \ {reporting} :
        Rerun(backbone, positioning, region, rp, specialty, annual_volume,
              prior_auth_rate, bad_debt_rate, cost_per_sample, reimbursement,
              scenario_volumes, price_scenarios)
SetPositioning ==
    \E p \in AppPositionings \ {positioning} :
        Rerun(backbone, p, region, reporting, specialty, annual_volume,
              prior_auth_rate, bad_debt_rate, cost_per_sample, reimbursement,
              scenario_volumes, price_scenarios)
SetSpecialty ==
    \E s \in AppSpecialties \ {specialty} :
        Rerun(backbone, positioning, region, reporting, s, annual_volume,
              prior_auth_rate, bad_debt_rate, cost_per_sample, reimbursement,
              scenario_volumes, price_scenarios)
SetRegion ==
    \E rg \in AppRegions \ {region} :
        Rerun(backbone, positioning, rg, reporting, specialty, annual_volume,
              prior_auth_rate, bad_debt_rate, cost_per_sample, reimbursement,
              scenario_volumes, price_scenarios)
SetAnnualVolume ==
    \E v \in AppVolumes \ {annual_volume} :
        Rerun(backbone, positioning, region, reporting, specialty, v,
              prior_auth_rate, bad_debt_rate, cost_per_sample, reimbursement,
              scenario_volumes, price_scenarios)
\* lines 217-221: the slider's whole percent divided by 100
SetPriorAuthRate ==
    \E percent \in {q \in AppPriorAuthPercents : RDiv(R(q), R(100)) # prior_auth_rate} :
        Rerun(backbone, positioning, region, reporting, specialty, annual_volume,
              RDiv(R(percent), R(100)), bad_debt_rate, cost_per_sample, reimbursement,
              scenario_volumes, price_scenarios)
\* lines 249-253
SetBadDebtRate ==
    \E percent \in {q \in AppBadDebtPercents : RDiv(R(q), R(100)) # bad_debt_rate} :
        Rerun(backbone, positioning, region, reporting, specialty, annual_volume,
              prior_auth_rate, RDiv(R(percent), R(100)), cost_per_sample, reimbursement,
              scenario_volumes, price_scenarios)
SetCostPerSample ==
    \E cost \in AppCosts \ {cost_per_sample} :
        Rerun(backbone, positioning, region, reporting, specialty, annual_volume,
              prior_auth_rate, bad_debt_rate, cost, reimbursement,
              scenario_volumes, price_scenarios)
SetReimbursement ==
    \E reimb \in AppReimbursements \ {reimbursement} :
        Rerun(backbone, positioning, region, reporting, specialty, annual_volume,
              prior_auth_rate, bad_debt_rate, cost_per_sample, reimb,
              scenario_volumes, price_scenarios)
SelectScenarioVolumes ==
    \E sv \in AppScenarioVolumes \ {scenario_volumes} :
        Rerun(backbone, positioning, region, reporting, specialty, annual_volume,
              prior_auth_rate, bad_debt_rate, cost_per_sample, reimbursement,
              sv, price_scenarios)
SelectPriceScenarios ==
    \E ps \in AppPriceScenarios \ {price_scenarios} :
        Rerun(backbone, positioning, region, reporting, specialty, annual_volume,
              prior_auth_rate, bad_debt_rate, cost_per_sample, reimbursement,
              scenario_volumes, ps)

Next ==
    \/ SetBackbone \/ SetReporting \/ SetPositioning \/ SetSpecialty \/ SetRegion
    \/ SetAnnualVolume \/ SetPriorAuthRate \/ SetBadDebtRate
    \/ SetCostPerSample \/ SetReimbursement
    \/ SelectScenarioVolumes \/ SelectPriceScenarios
Spec == Init /\ [][Next]_vars

---------------------------------------------------------------------------
(* SpecSession: the sidebar's benchmark button and the session management  *)
(* of the last tab, lines 141-146 and 621-660, with one widget to change   *)
(* the profile in between.  A button press runs the script again with the  *)
(* widgets as they are.  datetime.now() is a value of Timestamps.          *)

SessionNames == {"Q1", "Q2"}
Timestamps == {1, 2}
\* the two number inputs the model holds at their defaults (lines 213, 237)
batch_size == 20
lab_overhead == 25000

\* dict[key] = value and del dict[key]
Put(dict, key, value) ==
    [k \in DOMAIN dict \cup {key} |-> IF k = key THEN value ELSE dict[k]]
Del(dict, key) == [k \in DOMAIN dict \ {key} |-> dict[k]]

\* lines 629-641, from the values of the run that handles the press
session_data_of(now, fin, rm, adjusted) ==
    [timestamp |-> now,
     lab_profile |-> [backbone |-> backbone, reporting |-> reporting,
                      positioning |-> positioning, specialty |-> specialty,
                      region |-> region, annual_volume |-> annual_volume,
                      batch_size |-> batch_size, prior_auth_rate |-> prior_auth_rate],
     financials |-> fin,
     risk_metrics |-> rm,
     costs |-> [cost_per_sample |-> cost_per_sample, lab_overhead |-> R(lab_overhead)],
     reimbursement |-> reimbursement,
     rates |-> [denial_rate |-> adjusted, bad_debt_rate |-> bad_debt_rate]]

\* a run started by a button: the widgets keep their values
RunUnchanged ==
    Run(backbone, positioning, region, reporting, specialty, annual_volume,
        prior_auth_rate, bad_debt_rate, cost_per_sample, reimbursement,
        scenario_volumes, price_scenarios)

\* a variant: the new entry replaces the whole store
saved_with_only(saved, name, data) == Put(EmptyDict, name, data)
\* line 642
saved_with(saved, name, data) == Put(saved, name, data)
\* line 656
saved_without(saved, selected) == Del(saved, selected)

\* lines 141-146
LoadBenchmarks ==
    /\ RunUnchanged
    /\ session_state' =
           [initialize_session_state(session_state) EXCEPT !.benchmark_data = Benchmarks]
    /\ loaded_data' = None
    /\ industry_cost' = industry_cost_of(session_state', backbone)
    /\ clicked' = <<"benchmarks", "">>
    /\ UNCHANGED <<montecarlo, classifier>>

\* lines 626-643: the name typed, the button pressed
SaveSession ==
    \E session_name \in SessionNames, now \in Timestamps :
        /\ RunUnchanged
        /\ session_state' =
               [initialize_session_state(session_state) EXCEPT
                   !.saved_sessions =
                       saved_with(@, session_name,
                                  session_data_of(now, financials', risk_metrics',
                                                  adjusted_denial_rate'))]
        /\ loaded_data' = None
        /\ industry_cost' = industry_cost_of(session_state', backbone)
        /\ clicked' = <<"save", session_name>>
        /\ UNCHANGED <<montecarlo, classifier>>

\* lines 647-653
LoadSession ==
    \E selected_session \in DOMAIN session_state.saved_sessions :
        /\ RunUnchanged
        /\ session_state' = initialize_session_state(session_state)
        /\ loaded_data' = session_state'.saved_sessions[selected_session].lab_profile
        /\ industry_cost' = industry_cost_of(session_state', backbone)
        /\ clicked' = <<"load", selected_session>>
        /\ UNCHANGED <<montecarlo, classifier>>

\* lines 655-658: the entry deleted and, by st.rerun(), the script run again
DeleteSession ==
    \E selected_session \in DOMAIN session_state.saved_sessions :
        /\ RunUnchanged
        /\ session_state' =
               [initialize_session_state(session_state) EXCEPT
                   !.saved_sessions = saved_without(@, selected_session)]
        /\ loaded_data' = None
        /\ industry_cost' = industry_cost_of(session_state', backbone)
        /\ clicked' = <<"delete", selected_session>>
        /\ UNCHANGED <<montecarlo, classifier>>

NextSession ==
    \/ SetBackbone \/ LoadBenchmarks \/ SaveSession \/ LoadSession \/ DeleteSession
SpecSession == Init /\ [][NextSession]_vars

---------------------------------------------------------------------------
(* SpecMC: the Monte Carlo loop, lines 469-483, started from a rendered    *)
(* page.  The button sits inside the block of line 429.  A normal draw is  *)
(* loc + scale * z for a standard normal deviate z; the deviates and the   *)
(* Beta(2, 8) values offered are a few points of their ranges.             *)

\* the loop's trial count; the source runs 1000 trials (line 470)
n_simulations == 2

VolumeDeviates == {R(-11), R(1)}
CostDeviates == {R(-1), R(1)}
ReimbursementDeviates == {R(-1), R(1)}
BetaDraws == {Dec(2, 10), One}
MCVolumes == {250, 1000}

\* np.random.normal(loc, scale) at deviate z
normal(loc, scale, z) == RAdd(loc, RMul(scale, z))
\* line 480: int(sim_volume)
sim_volume_int(sim_volume) == PyInt(sim_volume)

\* a variant: the denial rate drawn around the profile's own rate
sim_denial_rate_profile(beta) == RAdd(adjusted_denial_rate, RMul(beta, Dec(3, 10)))
\* line 477: np.random.beta(2, 8) * 0.3
sim_denial_rate_of(beta) == RMul(beta, Dec(3, 10))

\* a variant: each trial starts from the volume the trial before it used
sim_arguments_carried(draw) ==
    [cost |-> normal(cost_per_sample, RMul(cost_per_sample, Dec(5, 100)), draw.zc),
     reimbursement |-> normal(reimbursement, RMul(reimbursement, Dec(1, 10)), draw.zr),
     volume |-> IF sim_call = NoCall
                THEN sim_volume_int(normal(R(annual_volume),
                                           RMul(R(annual_volume), Dec(1, 10)), draw.zv))
                ELSE sim_volume_int(normal(R(sim_call.volume),
                                           RMul(R(sim_call.volume), Dec(1, 10)), draw.zv)),
     denial_rate |-> sim_denial_rate_of(draw.beta)]
\* lines 474-480: the arguments of a trial's call, from the trial's draws
sim_arguments(draw) ==
    [cost |-> normal(cost_per_sample, RMul(cost_per_sample, Dec(5, 100)), draw.zc),
     reimbursement |-> normal(reimbursement, RMul(reimbursement, Dec(1, 10)), draw.zr),
     volume |-> sim_volume_int(normal(R(annual_volume),
                                      RMul(R(annual_volume), Dec(1, 10)), draw.zv)),
     denial_rate |-> sim_denial_rate_of(draw.beta)]

\* lines 480-481: the call and the value appended
sim_result(args) ==
    calculate_enhanced_financials(args.cost, args.reimbursement, args.volume,
                                  args.denial_rate).annual_net_profit

\* a variant: one pass more than n_simulations
loop_continues_inclusive(done) == done <= n_simulations
\* line 473: for _ in range(n_simulations)
loop_continues(done) == done < n_simulations

\* np.sort
RECURSIVE Insert(_, _)
Insert(x, sorted) ==
    IF sorted = <<>> THEN <<x>>
    ELSE IF RLe(x, Head(sorted)) THEN <<x>> \o sorted
    ELSE <<Head(sorted)>> \o Insert(x, Tail(sorted))
RECURSIVE Sort(_)
Sort(a) == IF a = <<>> THEN <<>> ELSE Insert(Head(a), Sort(Tail(a)))

\* np.percentile(a, q), q a whole percent: linear interpolation between the
\* two order statistics around position (len(a) - 1) * q / 100
percentile(a, q) ==
    LET sorted == Sort(a)
        lo == ((Len(a) - 1) * q) \div 100
        t == Norm(((Len(a) - 1) * q) % 100, 100)
    IN  IF lo + 1 >= Len(a) THEN sorted[Len(a)]
        ELSE RAdd(sorted[lo + 1], RMul(RSub(sorted[lo + 2], sorted[lo + 1]), t))

InitMC ==
    /\ pc = "rendered"
    /\ backbone \in AppBackbones
    /\ positioning = "First-line"
    /\ region = "National"
    /\ reporting = "Full Report"
    /\ specialty = "Oncology"
    /\ annual_volume \in MCVolumes
    /\ prior_auth_rate = RDiv(R(60), R(100))
    /\ bad_debt_rate = RDiv(R(5), R(100))
    /\ cost_per_sample = R(728)
    /\ reimbursement = R(1000)
    /\ scenario_volumes = <<1000, 2000>>
    /\ price_scenarios = <<1000>>
    /\ NoSession /\ NoPanel
    /\ ScriptOutput
    /\ NoSimulation

\* line 469-471: the button pressed, the list emptied
RunSimulation ==
    /\ pc = "rendered"
    /\ scenario_volumes # <<>> /\ price_scenarios # <<>>
    /\ pc' = "simulating"
    /\ results' = <<>>
    /\ sim_call' = NoCall
    /\ draws' = <<>>
    /\ n_calls' = 0
    /\ percentiles' = NoPercentiles
    /\ UNCHANGED <<inputs, derived, scenario, breakeven, session, classifier>>

\* lines 473-481: one pass of the loop
SimTrial ==
    /\ pc = "simulating"
    /\ loop_continues(Len(results))
    /\ \E zv \in VolumeDeviates, zc \in CostDeviates, zr \in ReimbursementDeviates,
          beta \in BetaDraws :
          \E draw \in {[zv |-> zv, zc |-> zc, zr |-> zr, beta |-> beta]} :
          \E args \in {sim_arguments(draw)} :
              /\ results' = Append(results, sim_result(args))
              /\ sim_call' = args
              /\ draws' = Append(draws, draw)
              /\ n_calls' = n_calls + 1
    /\ UNCHANGED <<pc, inputs, derived, scenario, breakeven, percentiles, session, classifier>>

\* lines 483-492: the loop left, the percentiles drawn on the page
SimDone ==
    /\ pc = "simulating"
    /\ ~loop_continues(Len(results))
    /\ pc' = "rendered"
    /\ percentiles' = [p5 |-> percentile(results, 5), p95 |-> percentile(results, 95)]
    /\ UNCHANGED <<inputs, derived, scenario, breakeven, results, sim_call, draws, n_calls,
                   session, classifier>>

NextMC == RunSimulation \/ SimTrial \/ SimDone
SpecMC == InitMC /\ [][NextMC]_vars

---------------------------------------------------------------------------
(* SpecCPT: the Panel/CPT classifier.  The file modelled above holds no    *)
(* classifier; this part follows section 4.1 of the specification, rules   *)
(* 1 to 3, one action per rule.                                            *)

PanelCategories == {"Liquid Biopsy", "Germline", "Solid Tumor - DNA", "Hematologic"}
GeneCounts == {1, 4, 5, 6, 20, 45, 50, 51, 150, 500}
CPTCodes == {"ctDNA", "high-complexity", "mid-complexity", "low-complexity"}

\* a variant: a panel of exactly 50 genes taken for high complexity
ladder_from_fifty(count) ==
    IF count >= 50 THEN "high-complexity"
    ELSE IF count > 5 THEN "mid-complexity"
    ELSE "low-complexity"
\* rule 2: the gene-count thresholds
ladder(count) ==
    IF count > 50 THEN "high-complexity"
    ELSE IF count > 5 THEN "mid-complexity"
    ELSE "low-complexity"

InitCPT ==
    /\ pc = "rule1"
    /\ panel_category \in PanelCategories
    /\ gene_count \in GeneCounts
    /\ cpt_code = NoCode
    /\ backbone = "Panel"
    /\ positioning = "First-line"
    /\ region = "National"
    /\ reporting = "Full Report"
    /\ specialty = "Oncology"
    /\ annual_volume = 1000
    /\ prior_auth_rate = Dec(60, 100)
    /\ bad_debt_rate = Dec(5, 100)
    /\ cost_per_sample = R(728)
    /\ reimbursement = R(1000)
    /\ risk_metrics = NoMetrics
    /\ base_denial_rate = None
    /\ adjusted_denial_rate = None
    /\ total_loss_rate = None
    /\ financials = NoFinancials
    /\ NoScenario /\ NoBreakeven /\ NoSimulation /\ NoSession

\* rule 1: a liquid biopsy gets the ctDNA code, whatever its gene count
Rule1 ==
    /\ pc = "rule1"
    /\ IF panel_category = "Liquid Biopsy"
       THEN cpt_code' = "ctDNA" /\ pc' = "returned"
       ELSE cpt_code' = cpt_code /\ pc' = "rule2"
    /\ UNCHANGED <<inputs, derived, scenario, breakeven, montecarlo, session,
                   panel_category, gene_count>>

\* rule 2: every other panel goes by the ladder
Rule2 ==
    /\ pc = "rule2"
    /\ cpt_code' = ladder(gene_count)
    /\ pc' = "rule3"
    /\ UNCHANGED <<inputs, derived, scenario, breakeven, montecarlo, session,
                   panel_category, gene_count>>

\* rule 3: a germline panel has the ladder applied again
Rule3 ==
    /\ pc = "rule3"
    /\ cpt_code' = IF panel_category = "Germline" THEN ladder(gene_count) ELSE cpt_code
    /\ pc' = "returned"
    /\ UNCHANGED <<inputs, derived, scenario, breakeven, montecarlo, session,
                   panel_category, gene_count>>

NextCPT == Rule1 \/ Rule2 \/ Rule3
SpecCPT == InitCPT /\ [][NextCPT]_vars

---------------------------------------------------------------------------
(* Claims about calculate_comprehensive_risk, under SpecRisk.              *)

Returned == pc = "returned"
Listed ==
    /\ backbone \in BackboneOptions
    /\ positioning \in PositioningOptions
    /\ region \in RegionOptions
    /\ reporting \in ReportingOptions
    /\ specialty \in SpecialtyOptions

\* The multipliers as the specification's table gives them, in tenths; a
\* value the table does not list counts 1.0.
Backbone10(b) == CASE b = "Panel" -> 8 [] b = "Exome" -> 10 [] b = "Genome" -> 12 [] OTHER -> 10
Positioning10(p) ==
    CASE p = "First-line" -> 11 [] p = "Reflex" -> 9 [] p = "Confirmatory" -> 7 [] OTHER -> 10
Region10(rg) ==
    CASE rg = "National" -> 10 [] rg = "Northeast" -> 9 [] rg = "South" -> 12
      [] rg = "Midwest" -> 10 [] rg = "West" -> 11 [] OTHER -> 10
Reporting10(rp) == CASE rp = "Full Report" -> 10 [] rp = "Carve-out Panels" -> 9 [] OTHER -> 10
Specialty10(s) ==
    CASE s = "Oncology" -> 8 [] s = "Cardiology" -> 10 [] s = "Neurology" -> 11
      [] s = "Rare Disease" -> 13 [] s = "Prenatal" -> 9 [] OTHER -> 10
\* max(0.7, 1.2 - volume/5000) in units of 1/5000
VolumeFactor5000(v) == IF 6000 - v > 3500 THEN 6000 - v ELSE 3500
ProductOfSix(b, p, rg, rp, s, v) ==
    Norm(Backbone10(b) * Positioning10(p) * Region10(rg) * Reporting10(rp)
           * Specialty10(s) * VolumeFactor5000(v),
         500000000)

ExampleProfile ==
    /\ backbone = "Panel" /\ positioning = "First-line" /\ region = "National"
    /\ reporting = "Full Report" /\ specialty = "Oncology" /\ annual_volume = 1000

C4_ComponentBounds ==
    Returned =>
        /\ \A k \in {"Prior Authorization Risk", "Denial Risk", "Time to Payment Risk"} :
               RLe(Zero, risk_metrics[k]) /\ RLe(risk_metrics[k], One)
        /\ RLe(Dec(3, 10), risk_metrics["Appeal Success Rate"])
        /\ RLe(risk_metrics["Appeal Success Rate"], One)

\* a call whose score is high enough for a clamp and the floor to act
C4_Witness ==
    /\ Returned
    /\ RLt(Dec(175, 100), risk_metrics["overall"])
    /\ risk_metrics["Prior Authorization Risk"] = One
    /\ risk_metrics["Appeal Success Rate"] = Dec(3, 10)
    /\ risk_metrics["Denial Risk"] = One

\* C5: an argument that is no key of its table counts 1.0 in the product, the
\* other factors count as listed, and the call returns all five entries as
\* finite numbers.
C5_UnlistedIsNeutral ==
    (Returned /\ ~Listed) =>
        /\ DOMAIN risk_metrics = RiskKeys
        /\ \A k \in RiskKeys : IsFinite(risk_metrics[k])
        /\ risk_metrics["overall"] =
               ProductOfSix(backbone, positioning, region, reporting, specialty,
                            annual_volume)

C5_Witness ==
    /\ Returned
    /\ backbone = "Genome" /\ positioning = Unlisted /\ region = "South"
    /\ reporting = Unlisted /\ specialty = "Oncology" /\ annual_volume = 1000
    /\ risk_metrics["overall"] = Dec(1152, 1000)

\* C9: with the five categorical arguments held fixed, a larger volume never
\* gives a larger 'overall'; the volume factor is non-increasing, at least 0.7,
\* and exactly 0.7 from volume 2500 on.
C9_MonotoneInVolume ==
    Returned =>
        /\ RLe(Dec(7, 10), volume_risk(annual_volume))
        /\ annual_volume >= 2500 => volume_risk(annual_volume) = Dec(7, 10)
        /\ \A v2 \in RiskVolumes :
               annual_volume <= v2 =>
                   /\ RLe(volume_risk(v2), volume_risk(annual_volume))
                   /\ RLe(calculate_comprehensive_risk(backbone, positioning, region,
                              reporting, specialty, v2)["overall"],
                          risk_metrics["overall"])

\* a call below the floor, with a larger volume that scores strictly less
C9_Witness ==
    /\ Returned
    /\ annual_volume = 1000
    /\ RLt(calculate_comprehensive_risk(backbone, positioning, region, reporting,
               specialty, 2500)["overall"],
           risk_metrics["overall"])

---------------------------------------------------------------------------
(* Claims about calculate_enhanced_financials, under SpecFin.              *)

ExampleFinArgs ==
    /\ cost_per_sample = R(728) /\ reimbursement = R(1000)
    /\ annual_volume = 1000 /\ total_loss_rate = Dec(15, 100)

\* C2: the returned record satisfies the defining formulas; (728, 1000, 1000,
\* 0.15) gives effective_reimbursement 850, net_profit 122 and
\* annual_net_profit 122000.
C2_FinancialFormulas ==
    Returned =>
        LET f == financials
            v == R(annual_volume)
        IN  /\ f.gross_profit = RSub(reimbursement, cost_per_sample)
            /\ f.effective_reimbursement =
                   RSub(reimbursement, RMul(reimbursement, total_loss_rate))
            /\ f.net_profit = RSub(f.effective_reimbursement, cost_per_sample)
            /\ f.annual_gross_revenue = RMul(v, reimbursement)
            /\ f.annual_net_revenue = RMul(v, f.effective_reimbursement)
            /\ f.annual_costs = RMul(v, cost_per_sample)
            /\ f.annual_net_profit = RMul(v, f.net_profit)
            /\ f.denial_impact = RMul(v, RSub(f.gross_profit, f.net_profit))
            /\ ExampleFinArgs =>
                   /\ f.effective_reimbursement = R(850)
                   /\ f.net_profit = R(122)
                   /\ f.annual_net_profit = R(122000)

C2_Witness ==
    Returned /\ ExampleFinArgs /\ financials.annual_net_profit = R(122000)

\* C6: a zero cost gives roi 0, a zero effective reimbursement gives margin 0,
\* and neither roi nor margin is ever the result of a division by zero.
C6_GuardedDivision ==
    Returned =>
        /\ cost_per_sample = Zero => financials.roi = Zero
        /\ financials.effective_reimbursement = Zero => financials.margin = Zero
        /\ financials.roi # ZeroDivisionError
        /\ financials.margin # ZeroDivisionError
        /\ IsFinite(financials.roi) /\ IsFinite(financials.margin)

\* both guards taken in one call
C6_Witness ==
    /\ Returned
    /\ cost_per_sample = Zero
    /\ financials.effective_reimbursement = Zero
    /\ financials.roi = Zero /\ financials.margin = Zero

\* C14: calculate_enhanced_financials returns a complete record of finite
\* numbers for negative cost, negative reimbursement, zero volume and loss
\* rates that leave no profit; the fields keep their formulas, and a test
\* that cannot pay shows as negative net_profit and annual_net_profit.
C14_TotalOnInfeasibleInputs ==
    Returned =>
        /\ DOMAIN financials = FinKeys
        /\ \A k \in FinKeys : IsFinite(financials[k])
        /\ financials.gross_profit = RSub(reimbursement, cost_per_sample)
        /\ financials.net_profit = RSub(financials.effective_reimbursement, cost_per_sample)
        /\ financials.annual_net_profit = RMul(R(annual_volume), financials.net_profit)
        /\ financials.annual_costs = RMul(R(annual_volume), cost_per_sample)
        /\ financials.denial_impact =
               RMul(R(annual_volume),
                    RSub(financials.gross_profit, financials.net_profit))
        /\ annual_volume = 0 =>
               /\ financials.annual_net_profit = Zero
               /\ financials.annual_costs = Zero
               /\ financials.annual_gross_revenue = Zero
        /\ RLt(financials.effective_reimbursement, cost_per_sample) =>
               /\ RLt(financials.net_profit, Zero)
               /\ annual_volume > 0 => RLt(financials.annual_net_profit, Zero)

\* a negative reimbursement against a positive cost
C14_Witness ==
    /\ Returned
    /\ reimbursement = R(-100) /\ cost_per_sample = R(1000) /\ annual_volume = 1000
    /\ total_loss_rate = Dec(15, 100)
    /\ financials.net_profit = R(-1085)
    /\ financials.annual_net_profit = R(-1085000)
    /\ financials.margin = Zero
    /\ RLt(financials.roi, Zero)

---------------------------------------------------------------------------
(* Claims about the script, under Spec.                                    *)

Rendered == pc = "rendered"
SliderPercents == {0, 20, 40, 60, 80, 100}
\* the loss rate as the specification states it, from a risk score
StatedLossRate(overall) ==
    LET base == RMul(Dec(15, 100), overall)
    IN  RAdd(RSub(base, RMul(base, RMul(Dec(4, 10), prior_auth_rate))), bad_debt_rate)

\* C3: the loss rate fed to the financial calculation, in the main run and in
\* every scenario row, is base*(1 - priorAuthRate*0.4) + badDebtRate with base
\* = overall*0.15; the adjusted denial rate lies between 60% and 100% of the
\* base rate for every prior authorization rate and never grows with it.
C3_LossRateFormula ==
    Rendered =>
        LET base == RMul(Dec(15, 100), risk_metrics["overall"])
        IN  /\ base_denial_rate = base
            /\ total_loss_rate = StatedLossRate(risk_metrics["overall"])
            /\ financials.effective_reimbursement =
                   RSub(reimbursement, RMul(reimbursement, total_loss_rate))
            /\ \A i \in DOMAIN scenario_data :
                   LET row == scenario_data[i]
                       loss == StatedLossRate(row.RiskScore)
                       price == R(row.Price)
                   IN  row.AnnualProfit =
                           RMul(R(row.Volume),
                                RSub(RSub(price, RMul(price, loss)), cost_per_sample))
            /\ RLe(RMul(Dec(6, 10), base), adjusted_denial_rate)
            /\ RLe(adjusted_denial_rate, base)
            /\ \A percent \in SliderPercents :
                   LET rate == RDiv(R(percent), R(100))
                       adjusted == adjusted_denial_rate_of(base_denial_rate, rate)
                   IN  /\ RLe(RMul(Dec(6, 10), base), adjusted)
                       /\ RLe(adjusted, base)
                       /\ RLe(prior_auth_rate, rate) => RLe(adjusted, adjusted_denial_rate)

\* full prior authorization, with scenario rows on the page
C3_Witness ==
    /\ Rendered
    /\ prior_auth_rate = One
    /\ RLt(Zero, base_denial_rate)
    /\ adjusted_denial_rate = RMul(Dec(6, 10), base_denial_rate)
    /\ Len(scenario_data) = 2
    /\ RLt(Zero, financials.effective_reimbursement)

\* C7: whenever net_profit <= 0, both break-even computations give a 'not
\* profitable' sentinel without dividing, and the resulting value is never an
\* infinite or NaN number.
C7_NotProfitableSentinel ==
    (Rendered /\ RLe(financials.net_profit, Zero)) =>
        /\ key_insights.breakeven_volume = None
        /\ breakeven_volume # ZeroDivisionError
        /\ breakeven_volume # Inf

\* annual net profit at a volume, the other arguments as in the main run
AnnualNetProfitAt(v) ==
    calculate_enhanced_financials(cost_per_sample, reimbursement, v,
                                  total_loss_rate).annual_net_profit
SmallerVolumes == {1, 10, 100}

\* C8: when net_profit > 0 the reported break-even volume is the least annual
\* test count with non-negative annual net profit: the profit at that volume
\* is >= 0 and the profit at every smaller positive volume is < 0.
C8_BreakevenIsMinimumVolume ==
    (Rendered /\ RLt(Zero, financials.net_profit) /\ breakeven_volume # None) =>
        /\ breakeven_volume = key_insights.breakeven_volume
        /\ RLe(Zero, RMul(financials.net_profit, breakeven_volume))
        /\ \A v \in SmallerVolumes :
               RLt(R(v), breakeven_volume) => RLt(AnnualNetProfitAt(v), Zero)

\* the widgets' bounds, lines 171-253: every listed option, volumes on both
\* branches of volume_risk, and the ends of both sliders.  The volumes are
\* those whose volume_risk is a whole number of tenths, which keeps every
\* product within TLC's 32-bit integers.
InputVolumes == {500, 1000, 2500}
InputPriorAuthPercents == {0, 60, 100}
InputBadDebtPercents == {0, 30}
InputReimbursements == {Zero, R(1000)}

LossRateAt(b, p, rg, rp, s, v, par, bdr) ==
    total_loss_rate_of(
        adjusted_denial_rate_of(
            base_denial_rate_of(calculate_comprehensive_risk(b, p, rg, rp, s, v)["overall"]),
            RDiv(R(par), R(100))),
        RDiv(R(bdr), R(100)))

\* what C17 says of one loss rate
LossRateInRange(total) ==
    /\ RLt(Zero, total)
    /\ RLt(total, One)
    /\ RLt(Zero, collection_rate_of(total))
    /\ RLt(collection_rate_of(total), R(100))
    /\ format_1f(collection_rate_of(total)) \in 1..999
    /\ \A reimb \in InputReimbursements :
           /\ RLe(Zero, effective_reimbursement_of(reimb, total))
           /\ RLe(effective_reimbursement_of(reimb, total), reimb)

EveryInputInRange ==
    \A b \in BackboneOptions, p \in PositioningOptions, rg \in RegionOptions,
       rp \in ReportingOptions, s \in SpecialtyOptions, v \in InputVolumes,
       par \in InputPriorAuthPercents, bdr \in InputBadDebtPercents :
        LossRateInRange(LossRateAt(b, p, rg, rp, s, v, par, bdr))

\* the least volume the widget takes (min_value=1, line 205) makes
\* volume_risk as large as it gets; with the riskiest option of every
\* selectbox, no prior authorization and the bad-debt slider at its end, this
\* is the largest loss rate of all
RiskiestInputInRange ==
    LossRateInRange(LossRateAt("Genome", "First-line", "South", "Full Report",
                               "Rare Disease", 1, 0, 30))

\* C17: for every configuration within the widgets' bounds the loss rate is
\* strictly between 0 and 1, so that effective_reimbursement lies between 0
\* and reimbursement, net_profit is at most gross_profit, denial_impact is
\* not negative, and the collection rate shown is strictly between 0% and
\* 100%.
C17_LossRateInRange ==
    /\ EveryInputInRange
    /\ RiskiestInputInRange
    /\ Rendered =>
           /\ LossRateInRange(total_loss_rate)
           /\ RLe(Zero, financials.effective_reimbursement)
           /\ RLe(financials.effective_reimbursement, reimbursement)
           /\ RLe(financials.net_profit, financials.gross_profit)
           /\ RLe(Zero, financials.denial_impact)

\* the riskiest configuration the model's widgets reach, at the end of the
\* bad-debt slider
C17_Witness ==
    /\ Rendered
    /\ backbone = "Genome" /\ region = "South" /\ specialty = "Cardiology"
    /\ positioning = "First-line" /\ reporting = "Full Report"
    /\ annual_volume = 250
    /\ prior_auth_rate = Zero
    /\ bad_debt_rate = Dec(30, 100)
    /\ RLt(Dec(50, 100), total_loss_rate)

\* the rows of the matrix for one selected pair
RowsFor(vol, price) ==
    {k \in DOMAIN scenario_data :
        scenario_data[k].Volume = vol /\ scenario_data[k].Price = price}

\* C20: the scenario matrix has exactly one row for every selected (volume,
\* price) pair, and the row whose volume is annual_volume and whose price is
\* reimbursement carries the Risk Score, ROI and Annual Profit of the main
\* calculation.
C20_MatrixAgreesWithMain ==
    Rendered =>
        /\ Len(scenario_data) = Len(scenario_volumes) * Len(price_scenarios)
        /\ \A i \in DOMAIN scenario_volumes, j \in DOMAIN price_scenarios :
               Cardinality(RowsFor(scenario_volumes[i], price_scenarios[j])) = 1
        /\ \A k \in DOMAIN scenario_data :
               (/\ scenario_data[k].Volume = annual_volume
                /\ R(scenario_data[k].Price) = reimbursement)
               => /\ scenario_data[k].RiskScore = risk_metrics["overall"]
                  /\ scenario_data[k].ROI = financials.roi
                  /\ scenario_data[k].AnnualProfit = financials.annual_net_profit

\* the default selections: the first row is the main calculation's own case
C20_Witness ==
    /\ Rendered
    /\ scenario_volumes = <<1000, 2000>> /\ price_scenarios = <<1000>>
    /\ annual_volume = 1000 /\ reimbursement = R(1000)
    /\ RLt(Zero, bad_debt_rate) /\ RLt(Zero, cost_per_sample)
    /\ Len(scenario_data) = 2
    /\ scenario_data[1].Volume = annual_volume
    /\ scenario_data[1].ROI = financials.roi
    /\ scenario_data[2].ROI # financials.roi

---------------------------------------------------------------------------
(* Claims about the Monte Carlo loop, under SpecMC.                        *)

\* C10: in every trial the volume passed to calculate_enhanced_financials is
\* a non-negative integer, whatever the normal draw, draws below zero
\* included.
C10_SimVolumeNonNegative ==
    sim_call # NoCall => sim_call.volume \in Nat

\* what a trial appends, stated from the three base inputs and the trial's
\* draws alone
ProfileFreeTrial(volume, cost, reimb, draw) ==
    LET v == RAdd(R(volume), RMul(Norm(volume, 10), draw.zv))
        c == RAdd(cost, RMul(RMul(cost, Dec(1, 20)), draw.zc))
        r == RAdd(reimb, RMul(RMul(reimb, Dec(1, 10)), draw.zr))
        denial == RMul(Dec(3, 10), draw.beta)
        truncated == IF v[1] >= 0 THEN v[1] \div v[2] ELSE -((-v[1]) \div v[2])
    IN  RMul(RSub(RSub(r, RMul(r, denial)), c), R(truncated))

\* C11: in every trial the denial rate passed to calculate_enhanced_financials
\* is 0.3 times the Beta draw, so within [0, 0.3], and every sample is fixed
\* by annual_volume, cost_per_sample, reimbursement and the trial's draws:
\* runs that differ only in the rest of the profile and get the same draws
\* give the same denial rates and the same samples.
C11_DenialRateProfileFree ==
    /\ sim_call # NoCall =>
           /\ RLe(Zero, sim_call.denial_rate)
           /\ RLe(sim_call.denial_rate, Dec(3, 10))
           /\ sim_call.denial_rate = RMul(Dec(3, 10), draws[Len(draws)].beta)
    /\ Len(results) = Len(draws)
    /\ \A i \in 1..Len(results) :
           results[i] = ProfileFreeTrial(annual_volume, cost_per_sample,
                                         reimbursement, draws[i])

\* a run on the Genome backbone whose first sample is the one the default
\* Panel profile gets from the same draws
C11_Witness ==
    /\ backbone = "Genome"
    /\ annual_volume = 1000 /\ cost_per_sample = R(728)
    /\ Len(results) = n_simulations
    /\ draws[1] = [zv |-> One, zc |-> One, zr |-> One, beta |-> Dec(2, 10)]
    /\ sim_call.denial_rate = Dec(6, 100)
    /\ results[1] = R(296560)

SimulationShown == pc = "rendered" /\ percentiles # NoPercentiles

C12_TrialCount ==
    /\ n_calls = Len(results)
    /\ Len(draws) = Len(results)
    /\ Len(results) <= n_simulations
    /\ sim_call # NoCall =>
           /\ sim_call = sim_arguments(draws[Len(draws)])
           /\ results[Len(results)] =
                  RMul(RSub(RMul(sim_call.reimbursement, RSub(One, sim_call.denial_rate)),
                            sim_call.cost),
                       R(sim_call.volume))
    /\ (pc = "rendered" /\ results # <<>>) => SimulationShown
    /\ SimulationShown =>
           /\ Len(results) = n_simulations
           /\ percentiles.p5 = percentile(results, 5)
           /\ percentiles.p95 = percentile(results, 95)
           /\ RLe(percentiles.p5, percentiles.p95)
           /\ \E i \in 1..Len(results) : RLe(results[i], percentiles.p5)
           /\ \E i \in 1..Len(results) : RLe(percentiles.p95, results[i])

\* C12: a run started by 'Run Simulation' ends after exactly n_simulations
\* trials; each trial makes one call of calculate_enhanced_financials with
\* its own perturbed arguments and appends one annual_net_profit, so the
\* list has n_simulations entries and the two percentiles are taken from it.
C12_ExactlyNTrials ==
    /\ []C12_TrialCount
    /\ [][pc = "simulating" =>
             \/ /\ pc' = "simulating"
                /\ Len(results) < n_simulations
                /\ Len(results') = Len(results) + 1
                /\ n_calls' = n_calls + 1
                /\ SubSeq(results', 1, Len(results)) = results
             \/ /\ pc' = "rendered"
                /\ Len(results) = n_simulations
                /\ results' = results /\ n_calls' = n_calls]_vars

C12_Witness ==
    /\ SimulationShown
    /\ n_calls = n_simulations
    /\ Len(results) = n_simulations
    /\ results[1] # results[n_simulations]

\* the orders in which n trials can be run
Orders(n) == {p \in [1..n -> 1..n] : \A i, j \in 1..n : p[i] = p[j] => i = j}

---------------------------------------------------------------------------
(* Claims about the session state, under SpecSession.                      *)

saved_sessions == session_state.saved_sessions
benchmark_data == session_state.benchmark_data

\* the arguments a saved session's two calls were made with
SavedRiskArgs(data) ==
    <<data.lab_profile.backbone, data.lab_profile.positioning, data.lab_profile.region,
      data.lab_profile.reporting, data.lab_profile.specialty,
      data.lab_profile.annual_volume>>
SavedFinArgs(data) ==
    <<data.costs.cost_per_sample, data.reimbursement, data.lab_profile.annual_volume,
      RAdd(data.rates.denial_rate, data.rates.bad_debt_rate)>>

C18_SessionStoreFrame ==
    [][LET saved == session_state.saved_sessions
           after == session_state'.saved_sessions
           name == clicked'[2]
       IN  /\ clicked'[1] = "save" =>
                  /\ DOMAIN after = DOMAIN saved \cup {name}
                  /\ \A k \in DOMAIN saved \ {name} : after[k] = saved[k]
                  /\ SavedRiskArgs(after[name]) =
                         <<backbone, positioning, region, reporting, specialty,
                           annual_volume>>
                  /\ after[name].lab_profile.prior_auth_rate = prior_auth_rate
                  /\ after[name].costs.cost_per_sample = cost_per_sample
                  /\ after[name].reimbursement = reimbursement
                  /\ after[name].rates.bad_debt_rate = bad_debt_rate
                  /\ after[name].rates.denial_rate = adjusted_denial_rate
                  /\ after[name].financials = financials
                  /\ after[name].risk_metrics = risk_metrics
                  /\ <<inputs, derived>>' = <<inputs, derived>>
           /\ clicked'[1] = "delete" =>
                  /\ name \in DOMAIN saved
                  /\ DOMAIN after = DOMAIN saved \ {name}
                  /\ \A k \in DOMAIN after : after[k] = saved[k]
           /\ clicked'[1] = "load" =>
                  /\ after = saved
                  /\ <<inputs, derived>>' = <<inputs, derived>>
                  /\ loaded_data' = saved[name].lab_profile]_vars

\* Q1 deleted while Q2, saved under another backbone, stays
C18_Witness ==
    /\ clicked = <<"delete", "Q1">>
    /\ DOMAIN saved_sessions = {"Q2"}
    /\ saved_sessions["Q2"].lab_profile.backbone # backbone
    /\ saved_sessions["Q2"].timestamp = 2

C19_KeysKept ==
    /\ DOMAIN defaults \subseteq DOMAIN session_state
    /\ benchmark_data # None =>
           /\ {"panel_cost", "exome_cost", "genome_cost"} \subseteq DOMAIN benchmark_data
           /\ \A b \in BackboneOptions : benchmark_key(b) \in DOMAIN benchmark_data
           /\ industry_cost = benchmark_data[benchmark_key(backbone)]
    /\ benchmark_data = None => industry_cost = None

\* C19: a run of the script sets a session-state key only when it is absent,
\* so no run resets the state: a saved session stays as saved until it is
\* deleted or saved again, and benchmark_data, once loaded, stays loaded and
\* holds the key backbone.lower() + '_cost' of every backbone option.
C19_SessionStateNeverReset ==
    /\ []C19_KeysKept
    /\ [][/\ session_state.benchmark_data # None =>
                 session_state'.benchmark_data = session_state.benchmark_data
          /\ \A k \in DOMAIN session_state.saved_sessions :
                 \/ clicked' \in {<<"delete", k>>, <<"save", k>>}
                 \/ /\ k \in DOMAIN session_state'.saved_sessions
                    /\ session_state'.saved_sessions[k] = session_state.saved_sessions[k]
          /\ session_state'.comparison_data = session_state.comparison_data
          /\ session_state'.current_profile = session_state.current_profile]_vars

\* a widget run after benchmarks were loaded and a session was saved
C19_Witness ==
    /\ clicked = <<"widget", "">>
    /\ backbone = "Genome"
    /\ benchmark_data = Benchmarks
    /\ industry_cost = R(1200)
    /\ "Q1" \in DOMAIN saved_sessions
    /\ saved_sessions["Q1"].lab_profile.backbone = "Panel"

---------------------------------------------------------------------------
(* Claims about the CPT classifier, under SpecCPT.                         *)

\* C15: every panel gets exactly one CPT code, fixed by its category and
\* gene count: "Liquid Biopsy" gets the ctDNA code whatever the count; any
\* other category, Germline included, gets the high-complexity code above 50
\* genes, the mid-complexity code from 6 to 50 and the low-complexity code
\* up to 5.
C15_OneCodePerPanel ==
    /\ cpt_code \in CPTCodes \cup {NoCode}
    /\ Returned =>
           /\ cpt_code \in CPTCodes
           /\ panel_category = "Liquid Biopsy" => cpt_code = "ctDNA"
           /\ panel_category # "Liquid Biopsy" =>
                  /\ gene_count > 50 <=> cpt_code = "high-complexity"
                  /\ (5 < gene_count /\ gene_count <= 50) <=> cpt_code = "mid-complexity"
                  /\ gene_count <= 5 <=> cpt_code = "low-complexity"

\* a germline panel of exactly 50 genes
C15_Witness ==
    /\ Returned
    /\ panel_category = "Germline"
    /\ gene_count = 50
    /\ cpt_code = "mid-complexity"

=============================================================================
